---- MODULE Spec2Model ----
(***************************************************************************)
(* State-machine model of Coins/data_sheet.py: the Coins account store     *)
(* (tables userdata, groupdata, pay_data) and its twelve operations.       *)
(*                                                                         *)
(* Floats are fixed-point integers: the value x stands for x / Unit, so    *)
(* one Milli is 0.001.  round(x, 3) is modelled by what it does on the     *)
(* decimal value.  Where the decimal value lies exactly half-way between   *)
(* two thousandths, a float that holds it exactly goes to the even         *)
(* thousandth (round(0.0625, 3) = 0.062); any other float lies on either   *)
(* side of the tie (round(10.0005, 3) = 10.001, round(4.0005, 3) = 4.0),   *)
(* so both neighbours are possible results.                                *)
(*                                                                         *)
(* Time is counted in ticks of 1 / TicksPerSec second: time.time() is      *)
(* now / TicksPerSec and int(time.time()) drops the fraction.  A handler   *)
(* is taken to run at one instant.                                         *)
(***************************************************************************)
EXTENDS Integers, Sequences, FiniteSets, TLC

VARIABLES
    users,      \* table userdata: userid -> [Coins, last_login]
    groups,     \* table groupdata: groupid -> allow
    payRows,    \* table pay_data, in rowid order: <<[id, userid, date, volume]>>
    now,        \* the clock, in ticks
    last,       \* the last call: [op, id, arg, res]
    pre,        \* the store as it was before the last call
    ledger,     \* history: <<userid, date>> -> [n, raw, trunc] of the insert_pay calls
    writes,     \* history: userid -> the last two set_Coins calls on that user
    configured, \* history: the groupids passed to set_group_allow
    touched,    \* history: userid -> the clock at its last set_Coins or update_activity, if any
    pc,         \* concurrent callers: the position of each in its handler
    loc,        \* concurrent callers: arguments and values read so far
    steps       \* number of calls and clock advances still to come

vars == <<users, groups, payRows, now, last, pre, ledger, writes, configured, touched, pc, loc, steps>>

----------------------------------------------------------------------------
(* Bounds of the model *)

MaxStepsPay == 5
MaxStepsUsers == 5
MaxStepsGroups == 4
MaxStepsConc == 2
MaxStepsTouch == 1
MaxStepsRace == 2
MaxStepsAll == 3

UserIds == {1, 2}
GroupIds == {1, 2, 3}
Procs == {1, 2}

----------------------------------------------------------------------------
(* Numbers *)

\* fixed-point units per 1.0 (Float columns and float arguments)
Unit == 10000

\* fixed-point units per 0.001, the grain of round(_, 3)
Milli == 10

\* the 86400 of punish_all_inactive_users, and the length of a calendar day
SecondsPerDay == 86400

\* clock ticks per second: time.time() has a fraction, int(time.time()) has none
TicksPerSec == 2

\* Coins=10.0 of add_new_user
InitialCoins == 10 * Unit

DayTicks == SecondsPerDay * TicksPerSec

\* the clock at start-up: on a whole second, or half a second past it
StartTimes == {0, 1}

\* clock advances: half a second, or a whole day
ClockSteps == {1, DayTicks}

\* volumes passed to insert_pay: 100, 50, 1.5, -1.5
Volumes == {100 * Unit, 50 * Unit, 15000, -15000}

\* deltas passed to set_Coins: 5.3333, -5.3333, 0.0625, -0.0625, -9.0, -8.999
Deltas == {53333, -53333, 625, -625, -9 * Unit, -89990}

\* values of random.random(), all in [0, 1): 0.0, 0.0005, 0.9996, 0.9999
RandomDraws == {0, 5, 9996, 9999}

\* how order_by leaves rows of equal Coins: by userid, upwards or downwards
TieOrders == {"up", "down"}

\* x / Unit is a binary fraction (Unit = 16 * 625), which a float holds exactly
Dyadic(x) == x % 625 = 0

\* The possible results of round(x, 3), the float being exactly x / Unit or not.
Round3(x, exact) ==
    LET lo == (x \div Milli) * Milli
        rem == x - lo
    IN  IF 2 * rem < Milli THEN {lo}
        ELSE IF 2 * rem > Milli THEN {lo + Milli}
        ELSE IF exact THEN {IF (lo \div Milli) % 2 = 0 THEN lo ELSE lo + Milli}
        ELSE {lo, lo + Milli}

\* The possible results of round(a + b, 3): the sum of two floats is exact
\* when both are binary fractions.
RoundSum3(a, b) == Round3(a + b, Dyadic(a) /\ Dyadic(b))

\* int(x): truncation towards zero.
PyInt(x) == IF x >= 0 THEN x \div Unit ELSE -((-x) \div Unit)

\* int(time.time())
IntTime(t) == t \div TicksPerSec

\* get_today(): the calendar day of the clock (the date string names the day)
get_today(t) == IntTime(t) \div SecondsPerDay

----------------------------------------------------------------------------
(* Table pay_data *)

\* s.query(PayData).filter(PayData.userid == userid): the rows, in rowid order
PayOfUser(rows, userid) == SelectSeq(rows, LAMBDA r : r.userid = userid)

\* s.query(PayData).filter(PayData.userid == userid, PayData.date == date)
PayOfUserDay(rows, userid, date) ==
    SelectSeq(rows, LAMBDA r : r.userid = userid /\ r.date = date)

\* s.add(PayData(...)): the id is assigned by the table
AddPay(rows, userid, date, volume) ==
    Append(rows, [id |-> Len(rows) + 1, userid |-> userid, date |-> date, volume |-> volume])

\* faulty variant: the update overwrites the volume
SumVolume_Overwrite(current_volume, volume) == volume

\* the volume written back by the update: round(current_volume + volume, 3)
SumVolume(current_volume, volume) ==
    (CHOOSE x \in RoundSum3(current_volume * Unit, volume * Unit) : TRUE) \div Unit

\* .update({PayData.volume: v}) on the rows of (userid, date)
UpdatePay(rows, userid, date, v) ==
    [i \in 1..Len(rows) |->
        IF rows[i].userid = userid /\ rows[i].date = date
        THEN [rows[i] EXCEPT !.volume = v]
        ELSE rows[i]]

\* faulty variant: no look-up of today's record, every call inserts
InsertPay_AlwaysAdd(rows, userid, volume, now_date) ==
    AddPay(rows, userid, now_date, volume)

\* faulty variant: a user with records never gets a new one
InsertPay_NoNewDay(rows, userid, volume, now_date) ==
    IF PayOfUser(rows, userid) = <<>>
    THEN AddPay(rows, userid, now_date, volume)
    ELSE UpdatePay(rows, userid, now_date, volume)

\* insert_pay, after volume = int(volume) and now_date = get_today()
InsertPay(rows, userid, volume, now_date) ==
    IF PayOfUser(rows, userid) = <<>>
    THEN AddPay(rows, userid, now_date, volume)
    ELSE IF PayOfUserDay(rows, userid, now_date) # <<>>
    THEN LET current_volume == Head(PayOfUserDay(rows, userid, now_date)).volume
         IN  UpdatePay(rows, userid, now_date, SumVolume(current_volume, volume))
    ELSE AddPay(rows, userid, now_date, volume)

\* get_pay_data(userid)
get_pay_data(userid) ==
    LET rs == PayOfUser(payRows, userid)
    IN  [i \in 1..Len(rs) |-> [date |-> rs[i].date, volume |-> rs[i].volume]]

\* get_today_pay_data(userid); 0.0 when there is no record of today
get_today_pay_data(userid) ==
    LET rs == PayOfUserDay(payRows, userid, get_today(now))
    IN  IF rs # <<>> THEN Head(rs).volume * Unit ELSE 0

----------------------------------------------------------------------------
(* Table userdata *)

\* is_in_table(userid)
is_in_table(userid) == userid \in DOMAIN users

\* the table with one more row
WithRow(table, key, row) ==
    [k \in DOMAIN table \cup {key} |-> IF k = key THEN row ELSE table[k]]

\* the row add_new_user inserts at time t
NewUser(t) == [Coins |-> InitialCoins, last_login |-> IntTime(t)]

\* .update({UserData.last_login: int(time.time())}) on the row of userid
TouchRow(us, userid, t) ==
    [k \in DOMAIN us |-> IF k = userid THEN [us[k] EXCEPT !.last_login = IntTime(t)] ELSE us[k]]

\* faulty variant: no row is inserted for a userid the table does not hold
UpdateActivity_NoCreate(us, userid, t) ==
    IF userid \in DOMAIN us THEN TouchRow(us, userid, t) ELSE us

\* faulty variant: the row is written anew, as add_new_user writes it
UpdateActivity_Reset(us, userid, t) == WithRow(us, userid, NewUser(t))

\* update_activity on a table in which the row is missing or present
UpdateActivity(us, userid, t) ==
    IF userid \in DOMAIN us
    THEN TouchRow(us, userid, t)
    ELSE TouchRow(WithRow(us, userid, NewUser(t)), userid, t)

\* get_Coins(userid): .first() is None when there is no row
get_Coins(userid) ==
    IF is_in_table(userid)
    THEN [res |-> "ok", value |-> users[userid].Coins]
    ELSE [res |-> "AttributeError", value |-> 0]

\* faulty variant: the write adds to the stored balance, not to the balance read
NewCoins_Stored(us, userid, current_length, length) ==
    RoundSum3(us[userid].Coins, length)

\* faulty variant: the sum is cut to 3 decimals, not rounded
NewCoins_Floor(us, userid, current_length, length) ==
    {((current_length + length) \div Milli) * Milli}

\* the possible values of round(current_length + length, 3) in set_Coins
NewCoins(us, userid, current_length, length) == RoundSum3(current_length, length)

\* faulty variant: the update leaves last_login alone
WriteCoins_KeepLogin(us, userid, coins, t) ==
    [k \in DOMAIN us |-> IF k = userid THEN [us[k] EXCEPT !.Coins = coins] ELSE us[k]]

\* .update({UserData.Coins: coins, UserData.last_login: int(time.time())})
WriteCoins(us, userid, coins, t) ==
    [k \in DOMAIN us |->
        IF k = userid THEN [Coins |-> coins, last_login |-> IntTime(t)] ELSE us[k]]

\* faulty variant: a day of inactivity is enough, whatever the balance
Punishable_AnyBalance(row, t) == t - row.last_login * TicksPerSec > DayTicks

\* faulty variant: a balance of exactly 1 is punished too
Punishable_AtOne(row, t) ==
    t - row.last_login * TicksPerSec > DayTicks /\ row.Coins >= Unit

\* time.time() - i.last_login > 86400 and i.Coins > 1
Punishable(row, t) ==
    t - row.last_login * TicksPerSec > DayTicks /\ row.Coins > Unit

\* faulty variant: the draw is taken twice
Punished_Twice(row, t, r) ==
    IF Punishable(row, t) THEN RoundSum3(row.Coins, -2 * r) ELSE {row.Coins}

\* faulty variant: the difference is stored as it is
Punished_Unrounded(row, t, r) ==
    IF Punishable(row, t) THEN {row.Coins - r} ELSE {row.Coins}

\* the possible Coins of a row after the sweep, its draw being r
Punished(row, t, r) ==
    IF Punishable(row, t) THEN RoundSum3(row.Coins, -r) ELSE {row.Coins}

\* random.random() is called for the rows that are punished only
SweepDraws(us, t) ==
    {r \in [DOMAIN us -> RandomDraws] : \A k \in DOMAIN us : ~Punishable(us[k], t) => r[k] = 0}

\* the possible tables after the sweep with draws r
Sweep(us, t, r) ==
    {[k \in DOMAIN us |-> [us[k] EXCEPT !.Coins = c[k]]] :
        c \in {f \in [DOMAIN us -> UNION {Punished(us[k], t, r[k]) : k \in DOMAIN us}] :
                    \A k \in DOMAIN us : f[k] \in Punished(us[k], t, r[k])}}

\* faulty variant: the order is ascending
ComesFirst_Asc(us, a, b, tie) ==
    \/ us[a].Coins < us[b].Coins
    \/ us[a].Coins = us[b].Coins /\ (IF tie = "up" THEN a <= b ELSE a >= b)

\* order_by(UserData.Coins.desc()): row a is not after row b
ComesFirst(us, a, b, tie) ==
    \/ us[a].Coins > us[b].Coins
    \/ us[a].Coins = us[b].Coins /\ (IF tie = "up" THEN a <= b ELSE a >= b)

RECURSIVE SortedRows(_, _, _)
\* the rows of the userids in ids, in the order of ComesFirst
SortedRows(us, ids, tie) ==
    IF ids = {} THEN <<>>
    ELSE LET a == CHOOSE k \in ids : \A b \in ids : ComesFirst(us, k, b, tie)
         IN  <<[userid |-> a, Coins |-> us[a].Coins]>> \o SortedRows(us, ids \ {a}, tie)

\* get_sorted()
get_sorted(tie) == SortedRows(users, DOMAIN users, tie)

----------------------------------------------------------------------------
(* Table groupdata *)

\* check_group_allow(groupid)
check_group_allow(groupid) ==
    IF groupid \in DOMAIN groups THEN groups[groupid] ELSE FALSE

\* faulty variant: the update is issued before the pending insert reaches the table
SetGroupAllow_InsertLast(gs, groupid, allow) ==
    IF groupid \in DOMAIN gs
    THEN [k \in DOMAIN gs |-> IF k = groupid THEN allow ELSE gs[k]]
    ELSE WithRow(gs, groupid, FALSE)

\* set_group_allow: the insert of (groupid, False) when there is no row, which
\* the session flushes before the update, then the update of the row
SetGroupAllow(gs, groupid, allow) ==
    LET added == IF groupid \in DOMAIN gs THEN gs ELSE WithRow(gs, groupid, FALSE)
    IN  [k \in DOMAIN added |-> IF k = groupid THEN allow ELSE added[k]]

----------------------------------------------------------------------------
(* History *)

Snapshot == [users |-> users, groups |-> groups, payRows |-> payRows, now |-> now]

NoCall == [op |-> "none", id |-> 0, arg |-> 0, res |-> "ok"]

Call(op, id, arg, res) == [op |-> op, id |-> id, arg |-> arg, res |-> res]

NoEntry == [n |-> 0, raw |-> 0, trunc |-> 0]

Days == 0..(MaxStepsPay + 1)

Abs(x) == IF x >= 0 THEN x ELSE -x

Sign(x) == IF x > 0 THEN 1 ELSE IF x < 0 THEN -1 ELSE 0

\* a volume with its fraction dropped: 1.5 gives 1, -1.5 gives -1
Truncated(v) == Sign(v) * (Abs(v) \div Unit)

\* the last two set_Coins calls on a user with no other write to its row between
Noted(ws, userid, length, before) ==
    [ws EXCEPT ![userid] =
        (IF Len(@) = 2 THEN Tail(@) ELSE @) \o <<[arg |-> length, before |-> before]>>]

Forgotten(ws, ids) == [k \in DOMAIN ws |-> IF k \in ids THEN <<>> ELSE ws[k]]

\* the clock of the last set_Coins or update_activity call on userid is t
Touched(ts, userid, t) == [ts EXCEPT ![userid] = {t}]

Record(led, userid, date, volume) ==
    [led EXCEPT ![<<userid, date>>] =
        [n |-> @.n + 1, raw |-> @.raw + volume, trunc |-> @.trunc + Truncated(volume)]]

----------------------------------------------------------------------------
(* Operations *)

InitStore ==
    /\ users = <<>>
    /\ groups = <<>>
    /\ payRows = <<>>
    /\ now \in StartTimes
    /\ last = NoCall
    /\ pre = [users |-> <<>>, groups |-> <<>>, payRows |-> <<>>, now |-> 0]
    /\ ledger = [k \in UserIds \X Days |-> NoEntry]
    /\ writes = [u \in UserIds |-> <<>>]
    /\ configured = {}
    /\ touched = [u \in UserIds |-> {}]
    /\ pc = [p \in Procs |-> "idle"]
    /\ loc = [p \in Procs |-> NoCall]

\* the clock advances between two calls
Tick(dt) ==
    /\ steps > 0
    /\ now' = now + dt
    /\ steps' = steps - 1
    /\ UNCHANGED <<users, groups, payRows, last, pre, ledger, writes, configured, touched, pc, loc>>

\* faulty variant: the payment also brings the payer's userdata row up to date
insert_pay_Touching(userid, volume) ==
    /\ steps > 0
    /\ payRows' = InsertPay(payRows, userid, PyInt(volume), get_today(now))
    /\ users' = UpdateActivity(users, userid, now)
    /\ last' = Call("insert_pay", userid, volume, "ok")
    /\ pre' = Snapshot
    /\ ledger' = Record(ledger, userid, get_today(now), volume)
    /\ steps' = steps - 1
    /\ UNCHANGED <<groups, now, writes, configured, touched, pc, loc>>

insert_pay(userid, volume) ==
    /\ steps > 0
    /\ payRows' = InsertPay(payRows, userid, PyInt(volume), get_today(now))
    /\ last' = Call("insert_pay", userid, volume, "ok")
    /\ pre' = Snapshot
    /\ ledger' = Record(ledger, userid, get_today(now), volume)
    /\ steps' = steps - 1
    /\ UNCHANGED <<users, groups, now, writes, configured, touched, pc, loc>>

InitPay == InitStore /\ steps = MaxStepsPay

NextPay ==
    \/ \E dt \in ClockSteps : Tick(dt)
    \/ \E u \in UserIds, v \in Volumes : insert_pay(u, v)

SpecPay == InitPay /\ [][NextPay]_vars

----------------------------------------------------------------------------
(* Operations on userdata *)

\* faulty variant: the insert replaces the row of a userid the table holds
add_new_user_Replace(userid) ==
    /\ steps > 0
    /\ users' = WithRow(users, userid, NewUser(now))
    /\ last' = Call("add_new_user", userid, 0, IF is_in_table(userid) THEN "IntegrityError" ELSE "ok")
    /\ writes' = Forgotten(writes, {userid})
    /\ pre' = Snapshot
    /\ steps' = steps - 1
    /\ UNCHANGED <<groups, payRows, now, ledger, configured, touched, pc, loc>>

\* add_new_user(userid): the insert fails on a userid the table holds
add_new_user(userid) ==
    /\ steps > 0
    /\ IF is_in_table(userid)
       THEN /\ last' = Call("add_new_user", userid, 0, "IntegrityError")
            /\ UNCHANGED <<users, writes>>
       ELSE /\ users' = WithRow(users, userid, NewUser(now))
            /\ last' = Call("add_new_user", userid, 0, "ok")
            /\ writes' = Forgotten(writes, {userid})
    /\ pre' = Snapshot
    /\ steps' = steps - 1
    /\ UNCHANGED <<groups, payRows, now, ledger, configured, touched, pc, loc>>

\* update_activity(userid), run by one caller with no other caller about
update_activity(userid) ==
    /\ steps > 0
    /\ users' = UpdateActivity(users, userid, now)
    /\ last' = Call("update_activity", userid, 0, "ok")
    /\ writes' = Forgotten(writes, {userid})
    /\ touched' = Touched(touched, userid, now)
    /\ pre' = Snapshot
    /\ steps' = steps - 1
    /\ UNCHANGED <<groups, payRows, now, ledger, configured, pc, loc>>

\* faulty variant: a missing row counts as a balance of 0 and is inserted
set_Coins_Upsert(userid, length) ==
    /\ steps > 0
    /\ \E coins \in RoundSum3(IF is_in_table(userid) THEN users[userid].Coins ELSE 0, length) :
        users' = WithRow(users, userid, [Coins |-> coins, last_login |-> IntTime(now)])
    /\ last' = Call("set_Coins", userid, length, IF is_in_table(userid) THEN "ok" ELSE "AttributeError")
    /\ writes' = Forgotten(writes, {userid})
    /\ touched' = Touched(touched, userid, now)
    /\ pre' = Snapshot
    /\ steps' = steps - 1
    /\ UNCHANGED <<groups, payRows, now, ledger, configured, pc, loc>>

\* set_Coins(userid, length), run by one caller with no other caller about
set_Coins(userid, length) ==
    /\ steps > 0
    /\ IF is_in_table(userid)
       THEN \E coins \in NewCoins(users, userid, users[userid].Coins, length) :
            /\ users' = WriteCoins(users, userid, coins, now)
            /\ last' = Call("set_Coins", userid, length, "ok")
            /\ writes' = Noted(writes, userid, length, users[userid].Coins)
            /\ touched' = Touched(touched, userid, now)
       ELSE /\ last' = Call("set_Coins", userid, length, "AttributeError")
            /\ UNCHANGED <<users, writes, touched>>
    /\ pre' = Snapshot
    /\ steps' = steps - 1
    /\ UNCHANGED <<groups, payRows, now, ledger, configured, pc, loc>>

\* punish_all_inactive_users()
punish_all_inactive_users ==
    /\ steps > 0
    /\ \E r \in SweepDraws(users, now) :
        \E us \in Sweep(users, now, r) :
            /\ users' = us
            /\ last' = Call("punish_all_inactive_users", 0, r, "ok")
            /\ writes' = Forgotten(writes, {k \in DOMAIN users : Punishable(users[k], now)})
    /\ pre' = Snapshot
    /\ steps' = steps - 1
    /\ UNCHANGED <<groups, payRows, now, ledger, configured, touched, pc, loc>>

InitUsers == InitStore /\ steps = MaxStepsUsers

NextUsers ==
    \/ \E dt \in ClockSteps : Tick(dt)
    \/ \E u \in UserIds : add_new_user(u)
    \/ \E u \in UserIds : update_activity(u)
    \/ \E u \in UserIds, d \in Deltas : set_Coins(u, d)
    \/ punish_all_inactive_users

SpecUsers == InitUsers /\ [][NextUsers]_vars

----------------------------------------------------------------------------
(* Operations on groupdata *)

set_group_allow(groupid, allow) ==
    /\ steps > 0
    /\ groups' = SetGroupAllow(groups, groupid, allow)
    /\ last' = Call("set_group_allow", groupid, allow, "ok")
    /\ configured' = configured \cup {groupid}
    /\ pre' = Snapshot
    /\ steps' = steps - 1
    /\ UNCHANGED <<users, payRows, now, ledger, writes, touched, pc, loc>>

InitGroups == InitStore /\ steps = MaxStepsGroups

NextGroups ==
    \/ \E dt \in ClockSteps : Tick(dt)
    \/ \E g \in GroupIds, a \in BOOLEAN : set_group_allow(g, a)

SpecGroups == InitGroups /\ [][NextGroups]_vars

----------------------------------------------------------------------------
(* Callers running at the same time.  A caller runs one handler, one query *)
(* at a time; between two queries of one caller the other caller may run.  *)

Other(p) == CHOOSE q \in Procs : q # p

\* the caller enters set_Coins(userid, length)
set_Coins_call(p, userid, length) ==
    /\ pc[p] = "idle"
    /\ pc' = [pc EXCEPT ![p] = "set_Coins_read"]
    /\ loc' = [loc EXCEPT ![p] =
            [op |-> "set_Coins", id |-> userid, arg |-> length, res |-> "running",
             cur |-> 0, raced |-> FALSE, wrote |-> 0]]
    /\ UNCHANGED <<users, groups, payRows, now, last, pre, ledger, writes, configured, touched, steps>>

\* current_length = s.query(UserData).filter(...).first().Coins
set_Coins_read(p) ==
    /\ pc[p] = "set_Coins_read"
    /\ IF loc[p].id \in DOMAIN users
       THEN /\ loc' = [loc EXCEPT ![p].cur = users[loc[p].id].Coins,
                                  ![p].raced = /\ pc[Other(p)] = "set_Coins_write"
                                               /\ loc[Other(p)].id = loc[p].id]
            /\ pc' = [pc EXCEPT ![p] = "set_Coins_write"]
       ELSE /\ loc' = [loc EXCEPT ![p].res = "AttributeError"]
            /\ pc' = [pc EXCEPT ![p] = "done"]
    /\ UNCHANGED <<users, groups, payRows, now, last, pre, ledger, writes, configured, touched, steps>>

\* the update of Coins and last_login, and the commit
set_Coins_write(p) ==
    /\ pc[p] = "set_Coins_write"
    /\ \E coins \in NewCoins(users, loc[p].id, loc[p].cur, loc[p].arg) :
        /\ users' = WriteCoins(users, loc[p].id, coins, now)
        /\ loc' = [loc EXCEPT ![p].res = "ok", ![p].wrote = coins]
    /\ pc' = [pc EXCEPT ![p] = "done"]
    /\ UNCHANGED <<groups, payRows, now, last, pre, ledger, writes, configured, touched, steps>>

InitConc == InitStore /\ steps = MaxStepsConc

NextConc ==
    \/ \E u \in UserIds : add_new_user(u)
    \/ \E p \in Procs, u \in UserIds, d \in Deltas : set_Coins_call(p, u, d)
    \/ \E p \in Procs : set_Coins_read(p)
    \/ \E p \in Procs : set_Coins_write(p)

SpecConc == InitConc /\ [][NextConc]_vars

----------------------------------------------------------------------------
(* update_activity with callers running at the same time: is_in_table,     *)
(* add_new_user and the update each open and close a session of their own. *)

\* the caller enters update_activity(userid)
update_activity_call(p, userid) ==
    /\ pc[p] = "idle"
    /\ pc' = [pc EXCEPT ![p] = "update_activity_check"]
    /\ loc' = [loc EXCEPT ![p] =
            [op |-> "update_activity", id |-> userid, arg |-> 0, res |-> "running",
             cur |-> 0, raced |-> FALSE, wrote |-> 0]]
    /\ UNCHANGED <<users, groups, payRows, now, last, pre, ledger, writes, configured, touched, steps>>

\* if not is_in_table(userid)
update_activity_check(p) ==
    /\ pc[p] = "update_activity_check"
    /\ pc' = [pc EXCEPT ![p] =
            IF is_in_table(loc[p].id) THEN "update_activity_touch" ELSE "update_activity_add"]
    /\ UNCHANGED <<users, groups, payRows, now, last, pre, ledger, writes, configured, touched, loc, steps>>

\* add_new_user(userid): the insert and its commit, which fails on a userid
\* the table holds by now
update_activity_add(p) ==
    /\ pc[p] = "update_activity_add"
    /\ IF is_in_table(loc[p].id)
       THEN /\ loc' = [loc EXCEPT ![p].res = "IntegrityError"]
            /\ pc' = [pc EXCEPT ![p] = "done"]
            /\ UNCHANGED users
       ELSE /\ users' = WithRow(users, loc[p].id, NewUser(now))
            /\ pc' = [pc EXCEPT ![p] = "update_activity_touch"]
            /\ UNCHANGED loc
    /\ UNCHANGED <<groups, payRows, now, last, pre, ledger, writes, configured, touched, steps>>

\* the update of last_login, and the commit
update_activity_touch(p) ==
    /\ pc[p] = "update_activity_touch"
    /\ users' = TouchRow(users, loc[p].id, now)
    /\ loc' = [loc EXCEPT ![p].res = "ok"]
    /\ pc' = [pc EXCEPT ![p] = "done"]
    /\ UNCHANGED <<groups, payRows, now, last, pre, ledger, writes, configured, touched, steps>>

InitTouch == InitStore /\ steps = MaxStepsTouch

NextTouch ==
    \/ \E u \in UserIds : add_new_user(u)
    \/ \E p \in Procs, u \in UserIds : update_activity_call(p, u)
    \/ \E p \in Procs : update_activity_check(p)
    \/ \E p \in Procs : update_activity_add(p)
    \/ \E p \in Procs : update_activity_touch(p)

SpecTouch == InitTouch /\ [][NextTouch]_vars

----------------------------------------------------------------------------
(* Calls on the three tables, made one after another.                      *)

InitAll == InitStore /\ steps = MaxStepsAll

NextAll ==
    \/ \E dt \in ClockSteps : Tick(dt)
    \/ \E u \in UserIds, v \in Volumes : insert_pay(u, v)
    \/ \E u \in UserIds : add_new_user(u)
    \/ \E u \in UserIds : update_activity(u)
    \/ \E u \in UserIds, d \in Deltas : set_Coins(u, d)
    \/ punish_all_inactive_users
    \/ \E g \in GroupIds, a \in BOOLEAN : set_group_allow(g, a)

SpecAll == InitAll /\ [][NextAll]_vars

----------------------------------------------------------------------------
(* insert_pay with two callers running at the same time, on a store that   *)
(* calls made one after another have filled.                               *)

\* volumes handed to the two callers
RaceVolumes == {100 * Unit, 50 * Unit, 15000}

AllIdle == \A p \in Procs : pc[p] = "idle"

\* an insert_pay call made before the two callers start
earlier_insert_pay(userid, volume) == AllIdle /\ insert_pay(userid, volume)

\* the clock advances before the two callers start
earlier_Tick(dt) == AllIdle /\ Tick(dt)

\* the caller enters insert_pay: volume = int(volume), now_date = get_today()
insert_pay_call(p, userid, volume) ==
    /\ pc[p] = "idle"
    /\ pc' = [pc EXCEPT ![p] = "insert_pay_any"]
    /\ loc' = [loc EXCEPT ![p] =
            [op |-> "insert_pay", id |-> userid, arg |-> PyInt(volume), res |-> "running",
             cur |-> 0, raced |-> FALSE, wrote |-> 0,
             date |-> get_today(now), branch |-> "none"]]
    /\ UNCHANGED <<users, groups, payRows, now, last, pre, ledger, writes, configured, touched, steps>>

\* if not s.query(PayData).filter(PayData.userid == userid).first()
insert_pay_any(p) ==
    /\ pc[p] = "insert_pay_any"
    /\ IF PayOfUser(payRows, loc[p].id) = <<>>
       THEN /\ pc' = [pc EXCEPT ![p] = "insert_pay_add"]
            /\ loc' = [loc EXCEPT ![p].branch = "add"]
       ELSE /\ pc' = [pc EXCEPT ![p] = "insert_pay_today"]
            /\ UNCHANGED loc
    /\ UNCHANGED <<users, groups, payRows, now, last, pre, ledger, writes, configured, touched, steps>>

\* elif s.query(PayData).filter(userid, now_date).first()
insert_pay_today(p) ==
    /\ pc[p] = "insert_pay_today"
    /\ IF PayOfUserDay(payRows, loc[p].id, loc[p].date) # <<>>
       THEN /\ pc' = [pc EXCEPT ![p] = "insert_pay_read"]
            /\ loc' = [loc EXCEPT ![p].branch = "update"]
       ELSE /\ pc' = [pc EXCEPT ![p] = "insert_pay_add"]
            /\ loc' = [loc EXCEPT ![p].branch = "add"]
    /\ UNCHANGED <<users, groups, payRows, now, last, pre, ledger, writes, configured, touched, steps>>

\* current_volume = s.query(PayData).filter(userid, now_date).first().volume
insert_pay_read(p) ==
    /\ pc[p] = "insert_pay_read"
    /\ loc' = [loc EXCEPT
            ![p].cur = Head(PayOfUserDay(payRows, loc[p].id, loc[p].date)).volume,
            ![p].raced = /\ pc[Other(p)] = "insert_pay_update"
                         /\ loc[Other(p)].id = loc[p].id
                         /\ loc[Other(p)].date = loc[p].date]
    /\ pc' = [pc EXCEPT ![p] = "insert_pay_update"]
    /\ UNCHANGED <<users, groups, payRows, now, last, pre, ledger, writes, configured, touched, steps>>

\* faulty variant: the update adds to the stored volume, not to the volume read
insert_pay_update_Stored(p) ==
    /\ pc[p] = "insert_pay_update"
    /\ payRows' = UpdatePay(payRows, loc[p].id, loc[p].date,
            SumVolume(Head(PayOfUserDay(payRows, loc[p].id, loc[p].date)).volume, loc[p].arg))
    /\ loc' = [loc EXCEPT ![p].res = "ok"]
    /\ pc' = [pc EXCEPT ![p] = "done"]
    /\ UNCHANGED <<users, groups, now, last, pre, ledger, writes, configured, touched, steps>>

\* the update of the volume to round(current_volume + volume, 3), and the commit
insert_pay_update(p) ==
    /\ pc[p] = "insert_pay_update"
    /\ payRows' = UpdatePay(payRows, loc[p].id, loc[p].date, SumVolume(loc[p].cur, loc[p].arg))
    /\ loc' = [loc EXCEPT ![p].res = "ok"]
    /\ pc' = [pc EXCEPT ![p] = "done"]
    /\ UNCHANGED <<users, groups, now, last, pre, ledger, writes, configured, touched, steps>>

\* s.add(PayData(userid, now_date, volume)), and the commit
insert_pay_add(p) ==
    /\ pc[p] = "insert_pay_add"
    /\ payRows' = AddPay(payRows, loc[p].id, loc[p].date, loc[p].arg)
    /\ loc' = [loc EXCEPT ![p].res = "ok"]
    /\ pc' = [pc EXCEPT ![p] = "done"]
    /\ UNCHANGED <<users, groups, now, last, pre, ledger, writes, configured, touched, steps>>

InitRace == InitStore /\ steps = MaxStepsRace

NextRace ==
    \/ \E dt \in ClockSteps : earlier_Tick(dt)
    \/ \E u \in UserIds, v \in Volumes : earlier_insert_pay(u, v)
    \/ \E p \in Procs, u \in UserIds, v \in RaceVolumes : insert_pay_call(p, u, v)
    \/ \E p \in Procs : insert_pay_any(p)
    \/ \E p \in Procs : insert_pay_today(p)
    \/ \E p \in Procs : insert_pay_read(p)
    \/ \E p \in Procs : insert_pay_update(p)
    \/ \E p \in Procs : insert_pay_add(p)

SpecRace == InitRace /\ [][NextRace]_vars

----------------------------------------------------------------------------
(* Claims on pay_data, under SpecPay *)

\* C1: pay_data holds at most one record for each (userid, date) pair.
C1_OneRecordPerUserDay ==
    \A i, j \in 1..Len(payRows) :
        (payRows[i].userid = payRows[j].userid /\ payRows[i].date = payRows[j].date)
            => i = j

\* C1 witness: a user paid twice on one day and again on another day.
C1_Witness ==
    \E u \in UserIds, d, e \in Days :
        /\ d # e
        /\ ledger[<<u, d>>].n >= 2
        /\ ledger[<<u, e>>].n >= 1
        /\ Len(PayOfUser(payRows, u)) = 2

\* the rows of before the last insert_pay call that are not of its user and day
C2_OtherRowsKept ==
    \A i \in 1..Len(pre.payRows) :
        (pre.payRows[i].userid # last.id \/ pre.payRows[i].date # get_today(pre.now))
            => (i <= Len(payRows) /\ payRows[i] = pre.payRows[i])

\* C2 as stated: after two insert_pay calls of today with volumes v1 and v2
\* get_today_pay_data is v1 + v2.
C2_AsStated ==
    \A u \in UserIds :
        ledger[<<u, get_today(now)>>].n = 2
            => get_today_pay_data(u) = ledger[<<u, get_today(now)>>].raw

\* C2 amended: after two insert_pay calls of today with volumes v1 and v2
\* get_today_pay_data is int(v1) + int(v2); an insert_pay on a day the user has
\* no record of appends one record of that day and keeps every other record;
\* get_today_pay_data is 0 when the user has no record of today.
C2_TodayPayment ==
    /\ \A u \in UserIds :
        /\ ledger[<<u, get_today(now)>>].n = 2
            => get_today_pay_data(u) = ledger[<<u, get_today(now)>>].trunc * Unit
        /\ ledger[<<u, get_today(now)>>].n = 0 => get_today_pay_data(u) = 0
    /\ last.op = "insert_pay" =>
        /\ C2_OtherRowsKept
        /\ PayOfUserDay(pre.payRows, last.id, get_today(pre.now)) = <<>> =>
            /\ Len(payRows) = Len(pre.payRows) + 1
            /\ payRows[Len(payRows)].userid = last.id
            /\ payRows[Len(payRows)].date = get_today(pre.now)
            /\ payRows[Len(payRows)].volume = Truncated(last.arg)

\* C2 witness: two calls of today, one with a fraction, on a user with a
\* record of an earlier day, the second call being the last one.
C2_Witness ==
    \E u \in UserIds :
        /\ ledger[<<u, get_today(now)>>].n = 2
        /\ ledger[<<u, get_today(now)>>].raw # ledger[<<u, get_today(now)>>].trunc * Unit
        /\ last.op = "insert_pay" /\ last.id = u
        /\ \E d \in Days : d < get_today(now) /\ ledger[<<u, d>>].n > 0

\* C3: get_pay_data(u) holds one entry for each day with an insert_pay call of u
\* and no other entry, its volume the sum of the truncated volumes of that day.
C3_PaymentHistory ==
    \A u \in UserIds :
        LET h == get_pay_data(u)
        IN  /\ \A d \in Days :
                ledger[<<u, d>>].n > 0
                    => Cardinality({i \in 1..Len(h) : h[i].date = d}) = 1
            /\ \A i \in 1..Len(h) :
                /\ h[i].date \in Days
                /\ ledger[<<u, h[i].date>>].n > 0
                /\ h[i].volume = ledger[<<u, h[i].date>>].trunc

\* C3 witness: a user with calls on two days, several on one of them, one
\* with a fraction, and another user with a call.
C3_Witness ==
    \E u, w \in UserIds, d, e \in Days :
        /\ u # w /\ d # e
        /\ ledger[<<u, d>>].n >= 2
        /\ ledger[<<u, d>>].raw # ledger[<<u, d>>].trunc * Unit
        /\ ledger[<<u, e>>].n >= 1
        /\ ledger[<<w, d>>].n >= 1
        /\ Len(get_pay_data(u)) = 2

----------------------------------------------------------------------------
(* Claims on concurrent set_Coins calls, under SpecConc *)

BothDone(u) ==
    \A p \in Procs :
        pc[p] = "done" /\ loc[p].op = "set_Coins" /\ loc[p].id = u /\ loc[p].res = "ok"

\* C4: of two finished set_Coins calls on one user, when both read the balance
\* before either wrote, both read the same balance and the stored balance is
\* that balance plus one of the two deltas; when one read after the other
\* wrote, the stored balance is the balance the first read plus both deltas.
C4_LostUpdate ==
    \A u \in UserIds :
        BothDone(u) =>
            IF \E p \in Procs : loc[p].raced
            THEN /\ loc[1].cur = loc[2].cur
                 /\ \E p \in Procs : users[u].Coins \in RoundSum3(loc[1].cur, loc[p].arg)
            ELSE \E p \in Procs :
                    /\ loc[Other(p)].cur \in RoundSum3(loc[p].cur, loc[p].arg)
                    /\ users[u].Coins \in RoundSum3(loc[Other(p)].cur, loc[Other(p)].arg)

\* C4 witness: both calls read 10.0, the deltas are 5.3333 and -9.0, and the
\* stored balance is 10.0 plus one delta, not 10.0 plus both.
C4_Witness ==
    \E u \in UserIds :
        /\ BothDone(u)
        /\ \E p \in Procs : loc[p].raced
        /\ loc[1].cur = InitialCoins /\ loc[2].cur = InitialCoins
        /\ loc[1].arg = 53333 /\ loc[2].arg = -9 * Unit
        /\ users[u].Coins \in {InitialCoins + 53330, InitialCoins - 9 * Unit}
        /\ users[u].Coins # InitialCoins + 53330 - 9 * Unit

----------------------------------------------------------------------------
(* Claims on userdata, under SpecUsers *)

Creates(op) == op \in {"add_new_user", "update_activity"}

\* C5: a userid has a row only once add_new_user or update_activity has been
\* called on it, and right after either call on a userid without a row the
\* userid is in the table and get_Coins returns 10.0.
C5_NewUser ==
    /\ \A u \in UserIds :
        (is_in_table(u) /\ u \notin DOMAIN pre.users) => (Creates(last.op) /\ last.id = u)
    /\ (Creates(last.op) /\ last.id \notin DOMAIN pre.users) =>
        /\ is_in_table(last.id)
        /\ get_Coins(last.id) = [res |-> "ok", value |-> 10 * Unit]

\* C5 witness: update_activity was called on a userid without a row while
\* another userid still has none.
C5_Witness ==
    /\ last.op = "update_activity"
    /\ last.id \notin DOMAIN pre.users
    /\ \E u \in UserIds : ~is_in_table(u)

\* the deltas at a rounding tie: an odd number of half thousandths
AtTie(d) == 2 * (Abs(d) % Milli) = Milli

\* set_Coins(u, d) then set_Coins(u, -d) were the last two writes to the row of u
RoundTrip(u) ==
    /\ Len(writes[u]) = 2
    /\ writes[u][2].arg = -writes[u][1].arg
    /\ writes[u][1].before % Milli = 0

\* C6 as stated: set_Coins(u, d) then set_Coins(u, -d) brings the balance back,
\* for any d.
C6_AsStated ==
    \A u \in UserIds : RoundTrip(u) => users[u].Coins = writes[u][1].before

\* C6 amended: set_Coins(u, d) then set_Coins(u, -d) brings the balance back,
\* for any d that is not an odd number of half thousandths.
C6_RoundTrip ==
    \A u \in UserIds :
        (RoundTrip(u) /\ ~AtTie(writes[u][1].arg)) => users[u].Coins = writes[u][1].before

\* C6 witness: 5.3333 was added to and then taken from a balance that a sweep
\* had left away from 10.0.
C6_Witness ==
    \E u \in UserIds :
        /\ RoundTrip(u)
        /\ writes[u][1].arg = 53333
        /\ writes[u][1].before # InitialCoins
        /\ users[u].Coins = writes[u][1].before

\* now - lastLogin > 86400 and coins > 1, on the row as the sweep found it
Inactive(u) == pre.now - pre.users[u].last_login * TicksPerSec > SecondsPerDay * TicksPerSec

Swept == last.op = "punish_all_inactive_users"

\* C7 as stated: the sweep takes less than 1 from an inactive balance above 1.
C7_AsStated ==
    Swept =>
        \A u \in DOMAIN pre.users :
            (Inactive(u) /\ pre.users[u].Coins > Unit) =>
                /\ users[u].Coins % Milli = 0
                /\ 0 <= pre.users[u].Coins - users[u].Coins
                /\ pre.users[u].Coins - users[u].Coins < Unit

\* C7 amended: the sweep takes at least 0 and at most 1 from an inactive
\* balance above 1 and leaves it rounded to 3 decimals.
C7_Decrease ==
    Swept =>
        \A u \in DOMAIN pre.users :
            (Inactive(u) /\ pre.users[u].Coins > Unit) =>
                /\ users[u].Coins % Milli = 0
                /\ 0 <= pre.users[u].Coins - users[u].Coins
                /\ pre.users[u].Coins - users[u].Coins <= Unit

\* C7 witness: the sweep drew 0.9999 for an inactive user and took 1.0.
C7_Witness ==
    /\ Swept
    /\ \E u \in DOMAIN pre.users :
        /\ Inactive(u) /\ pre.users[u].Coins > Unit
        /\ last.arg[u] = 9999
        /\ pre.users[u].Coins - users[u].Coins = Unit

\* C8: the sweep keeps the balance of every user that is not inactive or has
\* a balance of at most 1, keeps every last_login and keeps the set of rows.
C8_SweepFrame ==
    Swept =>
        /\ DOMAIN users = DOMAIN pre.users
        /\ \A u \in DOMAIN pre.users :
            /\ users[u].last_login = pre.users[u].last_login
            /\ (~Inactive(u) \/ pre.users[u].Coins <= Unit) =>
                users[u].Coins = pre.users[u].Coins

\* C8 witness: the sweep took from one inactive user and left another, whose
\* balance was exactly 1, alone.
C8_Witness ==
    /\ Swept
    /\ \E u, w \in DOMAIN pre.users :
        /\ Inactive(u) /\ users[u].Coins < pre.users[u].Coins
        /\ Inactive(w) /\ pre.users[w].Coins = Unit

\* C10: get_sorted returns one entry for each row, with the balance of the
\* row, the balances not increasing along the list.
C10_Leaderboard ==
    \A tie \in TieOrders :
        LET b == get_sorted(tie)
        IN  /\ Len(b) = Cardinality(DOMAIN users)
            /\ \A u \in DOMAIN users :
                \E i \in 1..Len(b) : b[i] = [userid |-> u, Coins |-> users[u].Coins]
            /\ \A i, j \in 1..Len(b) : i < j => b[i].Coins >= b[j].Coins

\* C10 witness: two rows, the one of the smaller userid with the smaller balance.
C10_Witness ==
    /\ DOMAIN users = UserIds
    /\ users[1].Coins < users[2].Coins
    /\ users[1].Coins # InitialCoins

----------------------------------------------------------------------------
(* Claims on groupdata, under SpecGroups *)

\* C9: right after set_group_allow(g, a), check_group_allow(g) is a and the
\* flag and the presence of every other group are as before; check_group_allow
\* is false for every groupid never passed to set_group_allow.
C9_GroupFlag ==
    /\ last.op = "set_group_allow" =>
        /\ check_group_allow(last.id) = last.arg
        /\ \A g \in GroupIds \ {last.id} :
            /\ g \in DOMAIN groups <=> g \in DOMAIN pre.groups
            /\ g \in DOMAIN groups => groups[g] = pre.groups[g]
    /\ \A g \in GroupIds \ configured :
        /\ check_group_allow(g) = FALSE
        /\ g \notin DOMAIN groups

\* C9 witness: set_group_allow(g, TRUE) on a groupid without a row, while
\* another group is allowed and a third groupid was never configured.
C9_Witness ==
    /\ last.op = "set_group_allow" /\ last.arg = TRUE
    /\ last.id \notin DOMAIN pre.groups
    /\ \E g \in DOMAIN pre.groups : pre.groups[g] = TRUE
    /\ GroupIds \ configured # {}

----------------------------------------------------------------------------
(* Further claims on userdata, under SpecUsers *)

\* C11: get_Coins and set_Coins on a userid without a row end in an error, and
\* set_Coins then leaves every table as it was.
C11_MissingUser ==
    /\ \A u \in UserIds \ DOMAIN users : get_Coins(u).res = "AttributeError"
    /\ (last.op = "set_Coins" /\ last.id \notin DOMAIN pre.users) =>
        /\ last.res = "AttributeError"
        /\ users = pre.users
        /\ groups = pre.groups
        /\ payRows = pre.payRows

\* C11 witness: set_Coins was called on a userid without a row while another
\* userid had one.
C11_Witness ==
    /\ last.op = "set_Coins"
    /\ last.id \notin DOMAIN pre.users
    /\ DOMAIN pre.users # {}
    /\ get_Coins(last.id).res = "AttributeError"

\* C13: the Coins of every row is a number, a whole number of thousandths.
C13_Rounded ==
    \A u \in DOMAIN users : users[u].Coins \in Int /\ users[u].Coins % Milli = 0

\* C13 witness: a balance of 15.333, left by set_Coins(u, 5.3333), from which
\* the sweep took a draw of 0.9996.
C13_Witness ==
    /\ Swept
    /\ \E u \in DOMAIN pre.users :
        /\ pre.users[u].Coins = InitialCoins + 53330
        /\ last.arg[u] = 9996
        /\ users[u].Coins = InitialCoins + 53330 - Unit

\* C14: add_new_user on a userid with a row ends in an IntegrityError and
\* leaves the table, that row's Coins and last_login included, as it was.
C14_DuplicateUser ==
    (last.op = "add_new_user" /\ last.id \in DOMAIN pre.users) =>
        /\ last.res = "IntegrityError"
        /\ users = pre.users

\* C14 witness: add_new_user on a row whose Coins is no longer 10.0 and whose
\* last_login is not the second of the call.
C14_Witness ==
    /\ last.op = "add_new_user"
    /\ last.id \in DOMAIN pre.users
    /\ pre.users[last.id].Coins # InitialCoins
    /\ pre.users[last.id].last_login # IntTime(pre.now)

\* C15: update_activity sets the last_login of its userid to the second of the
\* call, keeps the Coins of a row that was there, adds no row but that of its
\* userid and keeps every other row.
C15_TouchFrame ==
    last.op = "update_activity" =>
        /\ DOMAIN users = DOMAIN pre.users \cup {last.id}
        /\ users[last.id].last_login = IntTime(pre.now)
        /\ last.id \in DOMAIN pre.users => users[last.id].Coins = pre.users[last.id].Coins
        /\ \A w \in DOMAIN pre.users \ {last.id} : users[w] = pre.users[w]

\* C15 witness: update_activity on a row whose Coins is no longer 10.0 and
\* whose last_login was of an earlier day.
C15_Witness ==
    /\ last.op = "update_activity"
    /\ last.id \in DOMAIN pre.users
    /\ pre.users[last.id].Coins # InitialCoins
    /\ pre.users[last.id].last_login # IntTime(pre.now)
    /\ users[last.id].Coins = pre.users[last.id].Coins

\* set_Coins sets last_login to the second of the call
C16_LoginSet ==
    (last.op = "set_Coins" /\ last.res = "ok") =>
        users[last.id].last_login = IntTime(pre.now)

\* C16 as stated: set_Coins sets last_login, and a sweep no later than 86400
\* seconds after the last set_Coins or update_activity of a user keeps its
\* balance.
C16_AsStated ==
    /\ C16_LoginSet
    /\ Swept =>
        \A u \in DOMAIN pre.users :
            \A t \in touched[u] :
                pre.now - t <= DayTicks => users[u].Coins = pre.users[u].Coins

\* C16 amended: set_Coins sets last_login, and a sweep no later than 86400
\* seconds after the whole second in which the last set_Coins or
\* update_activity of a user was made keeps its balance.
C16_Refreshed ==
    /\ C16_LoginSet
    /\ Swept =>
        \A u \in DOMAIN pre.users :
            \A t \in touched[u] :
                pre.now - IntTime(t) * TicksPerSec <= DayTicks
                    => users[u].Coins = pre.users[u].Coins

\* C16 witness: a sweep exactly 86400 seconds after the second of a set_Coins
\* call that left a balance above 1.
C16_Witness ==
    /\ Swept
    /\ \E u \in DOMAIN pre.users :
        /\ Len(writes[u]) >= 1
        /\ \E t \in touched[u] : pre.now - IntTime(t) * TicksPerSec = DayTicks
        /\ pre.users[u].Coins > Unit

\* C18: the sweep changes balances above 1 only and leaves every balance it
\* changes, and every balance that was above 1, above 0.
C18_StaysPositive ==
    Swept =>
        \A u \in DOMAIN pre.users :
            /\ users[u].Coins # pre.users[u].Coins => pre.users[u].Coins > Unit
            /\ pre.users[u].Coins > Unit => users[u].Coins > 0
            /\ pre.users[u].Coins > 0 => users[u].Coins > 0

\* C18 witness: a sweep over an inactive user whose balance an earlier sweep
\* had brought from 1.001 to 0.001.
C18_Witness ==
    /\ Swept
    /\ \E u \in DOMAIN pre.users :
        /\ Inactive(u)
        /\ pre.users[u].Coins = Milli
        /\ users[u].Coins = Milli

----------------------------------------------------------------------------
(* Claims on concurrent update_activity calls, under SpecTouch *)

\* C12: update_activity is one atomic step, so that no update_activity call
\* ends in an IntegrityError.
C12_AsStated ==
    \A p \in Procs :
        loc[p].op = "update_activity" => loc[p].res # "IntegrityError"

----------------------------------------------------------------------------
(* Claims on concurrent insert_pay calls, under SpecRace *)

BothPaid(u, d) ==
    \A p \in Procs :
        /\ pc[p] = "done" /\ loc[p].op = "insert_pay"
        /\ loc[p].id = u /\ loc[p].date = d

\* C17: of two finished insert_pay calls of one user and day, when both found
\* no record of the day there are two records of it, one for each volume;
\* when both read the day's volume before either wrote, the day's one record
\* holds the volume of before plus one of the two volumes; in every other
\* case it holds the volume of before plus both.
C17_PaymentRace ==
    \A u \in UserIds, d \in Days :
        BothPaid(u, d) =>
            LET rs == PayOfUserDay(payRows, u, d)
                before == ledger[<<u, d>>]
            IN  IF \A p \in Procs : loc[p].branch = "add"
                THEN /\ before.n = 0
                     /\ Len(rs) = 2
                     /\ \E p \in Procs :
                            rs[1].volume = loc[p].arg /\ rs[2].volume = loc[Other(p)].arg
                ELSE IF \E p \in Procs : loc[p].raced
                THEN /\ Len(rs) = 1
                     /\ \E p \in Procs : rs[1].volume = before.trunc + loc[p].arg
                ELSE /\ Len(rs) = 1
                     /\ rs[1].volume = before.trunc + loc[1].arg + loc[2].arg

\* C17 witness: the day's record held 100, two calls of 100 and 50 both read
\* it before either wrote, and it holds 150 or 200, not 250.
C17_Witness ==
    \E u \in UserIds, d \in Days :
        /\ BothPaid(u, d)
        /\ \E p \in Procs : loc[p].raced
        /\ ledger[<<u, d>>].trunc = 100
        /\ loc[1].arg = 100 /\ loc[2].arg = 50
        /\ Len(PayOfUserDay(payRows, u, d)) = 1
        /\ PayOfUserDay(payRows, u, d)[1].volume \in {150, 200}

\* two records of one user and day, left by two calls that both found none
C17_TwoRecords ==
    \E u \in UserIds, d \in Days :
        /\ BothPaid(u, d)
        /\ Len(PayOfUserDay(payRows, u, d)) = 2

----------------------------------------------------------------------------
(* Claims on the three tables together, under SpecAll *)

UserOps == {"add_new_user", "update_activity", "set_Coins", "punish_all_inactive_users"}

\* C19: insert_pay succeeds whether or not its userid has a userdata row and
\* leaves userdata and groupdata as they were; add_new_user, update_activity,
\* set_Coins and punish_all_inactive_users leave groupdata and pay_data as
\* they were; set_group_allow leaves userdata and pay_data as they were.
C19_TablesApart ==
    /\ last.op = "insert_pay" =>
            /\ last.res = "ok"
            /\ PayOfUserDay(payRows, last.id, get_today(pre.now)) # <<>>
            /\ users = pre.users
            /\ groups = pre.groups
    /\ last.op \in UserOps =>
            /\ groups = pre.groups
            /\ payRows = pre.payRows
    /\ last.op = "set_group_allow" =>
            /\ users = pre.users
            /\ payRows = pre.payRows

\* C19 witness: a payment of a userid with no userdata row has been stored
\* while another user's row and a group's row exist.
C19_Witness ==
    /\ last.op = "insert_pay"
    /\ last.id \notin DOMAIN users
    /\ DOMAIN users # {}
    /\ DOMAIN groups # {}
    /\ PayOfUser(payRows, last.id) # <<>>
    /\ Len(payRows) = Len(pre.payRows) + 1

====
